---- MODULE Spec2Model ----
(***************************************************************************)
(* A model of fetch_data.py: three source adapters (Binance, Bybit,        *)
(* Coinglass), the indicator engine (EMA, MACD, RSI, ATR proxy, volatility *)
(* regime), the report builder and the file sink, as run once by main().   *)
(*                                                                         *)
(* Numbers.  Python floats are modelled in fixed point: a price, volume,   *)
(* indicator or imbalance x is the integer x * Scale (units of 10^-4); a   *)
(* funding rate is an integer number of 10^-8.  Results that the code      *)
(* divides (RSI) are kept as exact fractions <<numerator, denominator>>.   *)
(* round() and the format specifications round half to even, as Python     *)
(* does on a value that is exactly representable.                          *)
(***************************************************************************)
EXTENDS Integers, Sequences, FiniteSets, TLC

VARIABLES
    pc,          \* position of main(): which statement runs next
    apiKey,      \* COINGLASS_API_KEY is set (non-empty)
    requests,    \* every requests.get issued so far: <<[ep, failed]>>
    calls,       \* the adapters main has invoked so far, in order
    klines,      \* get_binance_data's locals closes/volumes/taker_buy_volumes
    oi,          \* get_bybit_data's local oi (the parsed open-interest body)
    binance,     \* main's binance bag
    bybit,       \* main's bybit bag
    liq,         \* main's (long_liq, short_liq)
    ind,         \* main's current_price, ema20, macd_list, rsi7_list, ...
    h4,          \* main's ema20_4h, ema50_4h
    vola,        \* main's atr14, vol_pct, vol_regime
    report,      \* the text written: its numeric fields and the regime label
    writes,      \* how many times public/btc-data.txt was written
    arg,         \* input of a pure function under test
    res          \* its result

vars == <<pc, apiKey, requests, calls, klines, oi, binance, bybit, liq, ind,
          h4, vola, report, writes, arg, res>>

-----------------------------------------------------------------------------
(* Bounds of the model *)

\* longest price series given to calculate_rsi on its own
MaxSeriesLen == 9
\* aggregated bid and ask volume given to the imbalance on its own
MaxVol == 12
\* aggregated bid and ask volume of a live order book inside main
MaxBookVol == 1
\* longest liquidation list in a Coinglass body
MaxLiqLen == 3

-----------------------------------------------------------------------------
(* Fixed point *)

\* one unit (1.0) of a float quantity
Scale == 10000
\* decimal digits of Scale
ScaleDigits == 4

RECURSIVE Pow10(_)
Pow10(k) == IF k = 0 THEN 1 ELSE 10 * Pow10(k - 1)

Max2(a, b) == IF a >= b THEN a ELSE b

Min2(a, b) == IF a <= b THEN a ELSE b

\* n/d rounded to the nearest integer, ties to even (d > 0)
RoundHalfEven(n, d) ==
    LET q == n \div d
        r == n % d
    IN  IF 2 * r < d THEN q
        ELSE IF 2 * r > d THEN q + 1
        ELSE IF q % 2 = 0 THEN q ELSE q + 1

\* floor(a * m / d) without the intermediate product a * m (a, m >= 0, d > 0)
MulDiv(a, m, d) == (a \div d) * m + ((a % d) * m) \div d

RECURSIVE SumSeq(_)
SumSeq(s) == IF s = <<>> THEN 0 ELSE Head(s) + SumSeq(Tail(s))

\* s[-n:]
LastN(s, n) ==
    IF Len(s) <= n THEN s ELSE SubSeq(s, Len(s) - n + 1, Len(s))

\* s[:n]
Prefix(s, n) == SubSeq(s, 1, Min2(n, Len(s)))

\* [v] * n
Repeat(v, n) == [i \in 1..n |-> v]

-----------------------------------------------------------------------------
(* Indicator engine *)

\* one step of the recurrence: price * k + prev * (1 - k), k = 2/(period+1),
\* that is (2 * price + (period - 1) * prev) / (period + 1) rounded to the
\* nearest fixed-point value; the quotients are taken apart so that no
\* intermediate product exceeds 32 bits
EmaStep(prev, price, period) ==
    (price \div (period + 1)) * 2 + (prev \div (period + 1)) * (period - 1)
      + RoundHalfEven((price % (period + 1)) * 2
                        + (prev % (period + 1)) * (period - 1), period + 1)

RECURSIVE EmaFrom(_, _, _)
EmaFrom(acc, rest, period) ==
    IF rest = <<>> THEN acc
    ELSE EmaFrom(Append(acc, EmaStep(acc[Len(acc)], Head(rest), period)),
                 Tail(rest), period)

\* calculate_ema(prices, period); prices non-empty (prices[0] raises otherwise)
calculate_ema(prices, period) == EmaFrom(<<prices[1]>>, Tail(prices), period)

Last(s) == s[Len(s)]

calculate_macd(prices) ==
    Last(calculate_ema(prices, 12)) - Last(calculate_ema(prices, 26))

\* the default period of calculate_rsi, and the one main passes
RsiPeriod == 7

\* calculate_rsi's early return, 50.0, as a fraction
RsiNeutral == <<50, 1>>

Deltas(prices) == [i \in 1..(Len(prices) - 1) |-> prices[i + 1] - prices[i]]

Gains(ds) == [i \in 1..Len(ds) |-> IF ds[i] > 0 THEN ds[i] ELSE 0]

Losses(ds) == [i \in 1..Len(ds) |-> IF ds[i] < 0 THEN -ds[i] ELSE 0]

\* a floor of one fixed-point step instead of 1
AvgLossEpsilon(losses, period) ==
    IF SumSeq(losses) > 0 THEN <<SumSeq(losses), period>> ELSE <<1, 1>>

\* avg_loss: the mean of the losses, or the constant 1 when there are none
AvgLoss(losses, period) ==
    IF SumSeq(losses) > 0 THEN <<SumSeq(losses), period>> ELSE <<Scale, 1>>

\* calculate_rsi(prices, period) as the exact fraction <<num, den>>, den > 0
calculate_rsi(prices, period) ==
    IF Len(prices) < period + 1 THEN RsiNeutral
    ELSE LET ds       == LastN(Deltas(prices), period)
             avg_gain == <<SumSeq(Gains(ds)), period>>
             avg_loss == AvgLoss(Losses(ds), period)
             \* rs = avg_gain / avg_loss
             rs       == <<avg_gain[1] * avg_loss[2], avg_gain[2] * avg_loss[1]>>
             \* 100 / (1 + rs)
             quot     == <<100 * rs[2], rs[2] + rs[1]>>
         IN  <<100 * quot[2] - quot[1], quot[2]>>

\* round(x, 3) of a fraction, in units of Scale
RoundFrac3(f) ==
    LET q == f[1] \div f[2]
        r == f[1] % f[2]
    IN  (q * 1000 + RoundHalfEven(r * 1000, f[2])) * (Scale \div 1000)

\* round(x, 3) of a fixed-point value, in units of Scale
Round3(x) == RoundHalfEven(x, Scale \div 1000) * (Scale \div 1000)

\* the bid share of the book instead of the normalised difference
ImbalanceBidShare(bid_vol, ask_vol) ==
    IF bid_vol + ask_vol > 0
    THEN <<bid_vol, bid_vol + ask_vol>>
    ELSE <<0, 1>>

\* the imbalance of get_binance_data before rounding, as a fraction
Imbalance(bid_vol, ask_vol) ==
    IF bid_vol + ask_vol > 0
    THEN <<bid_vol - ask_vol, bid_vol + ask_vol>>
    ELSE <<0, 1>>

\* round(imbalance, 4), in units of Scale
RoundImbalance(f) == RoundHalfEven(f[1] * Scale, f[2])

-----------------------------------------------------------------------------
(* HTTP responses.  A response is what one requests.get produces: either   *)
(* the call raises (connection error, timeout: err), or it returns a       *)
(* status and a body.  Bodies are described by what the code reads of      *)
(* them.                                                                   *)

Statuses == {200, 500}

\* requests.get raised
Transport == [err |-> TRUE, status |-> 0, body |-> [json |-> FALSE]]

Http(status, body) == [err |-> FALSE, status |-> status, body |-> body]

\* Response.raise_for_status() raises
RaiseForStatus(resp) == resp.status >= 400

\* limit=10 of the 1-minute klines request
KlinesLimit == 10

\* One kline row; the code reads k[4], k[5], k[9].  ok = FALSE: float() of a
\* field raises (or the row is too short).
Row(close, volume, taker) ==
    [ok |-> TRUE, close |-> close, volume |-> volume, taker |-> taker]

BadRow == [ok |-> FALSE, close |-> 0, volume |-> 0, taker |-> 0]

\* the closes of the live series the model feeds in: a ramp 100, 101, ...,
\* and a zigzag 109.25, 108.125, 109.25, ...
Close(shape, i) ==
    IF shape = "ramp" THEN (100 + (i - 1)) * Scale
    ELSE IF i % 2 = 1 THEN 109 * Scale + Scale \div 4
    ELSE 108 * Scale + Scale \div 8

Shapes == {"ramp", "zigzag"}

\* n rows; every volume is 1.0 and every taker-buy volume 0.5, but the
\* latest candle has volume lastVol and taker-buy volume lastVol / 2
KlineRows(shape, n, lastVol) ==
    [i \in 1..n |->
        IF i = n THEN Row(Close(shape, i), lastVol, lastVol \div 2)
        ELSE Row(Close(shape, i), Scale, Scale \div 2)]

KlinesBodies ==
    {[json |-> TRUE, isList |-> FALSE, rows |-> <<>>],
     [json |-> TRUE, isList |-> TRUE, rows |-> <<>>],
     [json |-> TRUE, isList |-> TRUE, rows |-> <<BadRow>>],
     [json |-> FALSE, isList |-> FALSE, rows |-> <<>>]}
    \cup {[json |-> TRUE, isList |-> TRUE, rows |-> KlineRows(sh, n, lv)] :
            sh \in Shapes, n \in 1..KlinesLimit, lv \in {0, Scale}}

KlinesResponses ==
    {Transport} \cup {Http(st, b) : st \in Statuses, b \in KlinesBodies}

\* One side of the book: n levels of quantity 1.0 each.
BookSides == {Repeat(Scale, n) : n \in 0..MaxBookVol}

DepthBodies ==
    {[json |-> FALSE, hasBids |-> FALSE, hasAsks |-> FALSE, ok |-> FALSE,
      bids |-> <<>>, asks |-> <<>>]}
    \cup {[json |-> TRUE, hasBids |-> hb, hasAsks |-> ha, ok |-> TRUE,
           bids |-> <<>>, asks |-> <<>>] :
            hb \in BOOLEAN, ha \in {FALSE}}
    \cup {[json |-> TRUE, hasBids |-> FALSE, hasAsks |-> TRUE, ok |-> TRUE,
           bids |-> <<>>, asks |-> <<>>],
          [json |-> TRUE, hasBids |-> TRUE, hasAsks |-> TRUE, ok |-> FALSE,
           bids |-> <<Scale>>, asks |-> <<Scale>>]}
    \cup {[json |-> TRUE, hasBids |-> TRUE, hasAsks |-> TRUE, ok |-> TRUE,
           bids |-> b, asks |-> a] : b \in BookSides, a \in BookSides}

DepthResponses ==
    {Transport} \cup {Http(st, b) : st \in Statuses, b \in DepthBodies}

-----------------------------------------------------------------------------
(* get_binance_data *)

\* the try block raises before the depth request
KlinesRaises(resp) ==
    \/ resp.err
    \/ RaiseForStatus(resp)
    \/ ~resp.body.json
    \/ ~resp.body.isList
    \/ Len(resp.body.rows) = 0
    \/ \E i \in 1..Len(resp.body.rows) : ~resp.body.rows[i].ok

\* closes, volumes, taker_buy_volumes
KlinesLocals(resp) ==
    [closes  |-> [i \in 1..Len(resp.body.rows) |-> resp.body.rows[i].close],
     volumes |-> [i \in 1..Len(resp.body.rows) |-> resp.body.rows[i].volume],
     taker   |-> [i \in 1..Len(resp.body.rows) |-> resp.body.rows[i].taker]]

NoKlines == [closes |-> <<>>, volumes |-> <<>>, taker |-> <<>>]

\* the try block raises at or after the depth request
DepthRaises(resp) ==
    \/ resp.err
    \/ RaiseForStatus(resp)
    \/ ~resp.body.json
    \/ ~resp.body.hasBids
    \/ ~resp.body.hasAsks
    \/ ~resp.body.ok

\* the bag of the return statement
BinanceLive(kl, depth) ==
    LET bid_vol == SumSeq(depth.bids)
        ask_vol == SumSeq(depth.asks)
    IN  [mid_prices           |-> kl.closes,
         volumes              |-> kl.volumes,
         taker_buy_volumes    |-> kl.taker,
         order_book_imbalance |-> RoundImbalance(Imbalance(bid_vol, ask_vol)),
         bid_vol_top5         |-> bid_vol,
         ask_vol_top5         |-> ask_vol]

\* the bag of the except clause
BinanceFallback ==
    [mid_prices           |-> Repeat(60000 * Scale, 10),
     volumes              |-> Repeat(Scale, 10),
     taker_buy_volumes    |-> Repeat(Scale \div 2, 10),
     order_book_imbalance |-> 0,
     bid_vol_top5         |-> 10 * Scale,
     ask_vol_top5         |-> 10 * Scale]

\* a handler that keeps the candle fields already parsed
BinanceOnDepthErrorPartial(kl) ==
    [BinanceFallback EXCEPT !.mid_prices = kl.closes, !.volumes = kl.volumes,
                            !.taker_buy_volumes = kl.taker]

\* what the except clause returns when the depth half raised after the
\* klines half had filled closes/volumes/taker_buy_volumes
BinanceOnDepthError(kl) == BinanceFallback

NoBag ==
    [mid_prices |-> <<>>, volumes |-> <<>>, taker_buy_volumes |-> <<>>,
     order_book_imbalance |-> 0, bid_vol_top5 |-> 0, ask_vol_top5 |-> 0]

\* one entry of the request log: the endpoint, and whether the request
\* failed
Entry(ep, failed) == [ep |-> ep, failed |-> failed]

\* the klines request failed: transport error, non-2xx status, a body that
\* is not a non-empty list, or a malformed field
KlinesFailed(resp) ==
    \/ resp.err
    \/ resp.status \notin 200..299
    \/ ~resp.body.json
    \/ ~resp.body.isList
    \/ resp.body.rows = <<>>
    \/ \E i \in 1..Len(resp.body.rows) : ~resp.body.rows[i].ok

\* the depth request failed: transport error, non-2xx status, 'bids' or
\* 'asks' missing, or a malformed field
DepthFailed(resp) ==
    \/ resp.err
    \/ resp.status \notin 200..299
    \/ ~resp.body.json
    \/ ~(resp.body.hasBids /\ resp.body.hasAsks)
    \/ ~resp.body.ok

BinanceKlines ==
    /\ pc = "klines"
    /\ \E resp \in KlinesResponses :
         /\ requests' = Append(requests, Entry("klines", KlinesFailed(resp)))
         /\ IF KlinesRaises(resp)
            THEN /\ binance' = BinanceFallback
                 /\ klines' = NoKlines
                 /\ pc' = "oi"
            ELSE /\ klines' = KlinesLocals(resp)
                 /\ binance' = binance
                 /\ pc' = "depth"
    /\ calls' = Append(calls, "binance")
    /\ UNCHANGED <<apiKey, oi, bybit, liq, ind, h4, vola, report, writes,
                   arg, res>>

BinanceDepth ==
    /\ pc = "depth"
    /\ \E resp \in DepthResponses :
         /\ requests' = Append(requests, Entry("depth", DepthFailed(resp)))
         /\ binance' = IF DepthRaises(resp)
                       THEN BinanceOnDepthError(klines)
                       ELSE BinanceLive(klines, resp.body)
    /\ klines' = NoKlines
    /\ pc' = "oi"
    /\ UNCHANGED <<apiKey, calls, oi, bybit, liq, ind, h4, vola, report,
                   writes, arg, res>>

-----------------------------------------------------------------------------
(* get_bybit_data *)

\* A Bybit body: json (Response.json() parses it), hasResult ('result' in
\* body), fieldOk (body['result'][<field>] exists and float() accepts it),
\* value (that float).
BybitBody(json, hasResult, fieldOk, value) ==
    [json |-> json, hasResult |-> hasResult, fieldOk |-> fieldOk,
     value |-> value]

\* live open interest 31000.0 (units of Scale)
OiBodies ==
    {BybitBody(FALSE, FALSE, FALSE, 0), BybitBody(TRUE, FALSE, FALSE, 0),
     BybitBody(TRUE, TRUE, FALSE, 0), BybitBody(TRUE, TRUE, TRUE, 31000 * Scale)}

\* live funding rate 0.0001 (units of 10^-8)
FundingBodies ==
    {BybitBody(FALSE, FALSE, FALSE, 0), BybitBody(TRUE, FALSE, FALSE, 0),
     BybitBody(TRUE, TRUE, FALSE, 0), BybitBody(TRUE, TRUE, TRUE, 10000)}

OiResponses == {Transport} \cup {Http(st, b) : st \in Statuses, b \in OiBodies}

FundingResponses ==
    {Transport} \cup {Http(st, b) : st \in Statuses, b \in FundingBodies}

\* requests.get(...).json() raises
JsonRaises(resp) == resp.err \/ ~resp.body.json

\* the validation and the two float() conversions raise
BybitParseRaises(oiBody, fundingBody) ==
    \/ ~oiBody.hasResult
    \/ ~fundingBody.hasResult
    \/ ~oiBody.fieldOk
    \/ ~fundingBody.fieldOk

BybitLive(oiBody, fundingBody) ==
    [oi_latest |-> oiBody.value, funding_rate |-> fundingBody.value]

\* the bag of the except clause: 29000.0 and 0.00001
BybitFallback == [oi_latest |-> 29000 * Scale, funding_rate |-> 1000]

\* the request failed in the sense of the adapter contract: transport
\* error, non-2xx status, or a body without a usable "result"
BybitFailed(resp) ==
    \/ resp.err
    \/ resp.status \notin 200..299
    \/ ~resp.body.json
    \/ ~resp.body.hasResult
    \/ ~resp.body.fieldOk

NoBody == BybitBody(FALSE, FALSE, FALSE, 0)

NoBybit == [oi_latest |-> 0, funding_rate |-> 0]

BybitOI ==
    /\ pc = "oi"
    /\ \E resp \in OiResponses :
         /\ requests' = Append(requests, Entry("oi", BybitFailed(resp)))
         /\ IF JsonRaises(resp)
            THEN /\ bybit' = BybitFallback
                 /\ oi' = NoBody
                 /\ pc' = "coinglass"
            ELSE /\ oi' = resp.body
                 /\ bybit' = bybit
                 /\ pc' = "funding"
    /\ calls' = Append(calls, "bybit")
    /\ UNCHANGED <<apiKey, klines, binance, liq, ind, h4, vola, report,
                   writes, arg, res>>

BybitFunding ==
    /\ pc = "funding"
    /\ \E resp \in FundingResponses :
         /\ requests' = Append(requests, Entry("funding", BybitFailed(resp)))
         /\ bybit' = IF JsonRaises(resp) \/ BybitParseRaises(oi, resp.body)
                     THEN BybitFallback
                     ELSE BybitLive(oi, resp.body)
    /\ oi' = NoBody
    /\ pc' = "coinglass"
    /\ UNCHANGED <<apiKey, calls, klines, binance, liq, ind, h4, vola,
                   report, writes, arg, res>>

-----------------------------------------------------------------------------
(* get_coinglass_liquidations *)

\* An item of a liquidation list: hasPrice (item['price'] exists), isInt
\* (the JSON number has no fraction part and no exponent), price.
LiqItem(hasPrice, isInt, price) ==
    [hasPrice |-> hasPrice, isInt |-> isInt, price |-> price]

\* the i-th long and short levels of a live body: 58000.5, 57000, 56000.5, ...
\* and 62000, 63000.5, 64000, ...
LongItem(i) == LiqItem(TRUE, i % 2 = 0, (59000 - 1000 * i) * Scale
                                          + (IF i % 2 = 0 THEN 0 ELSE Scale \div 2))

ShortItem(i) == LiqItem(TRUE, i % 2 = 1, (61000 + 1000 * i) * Scale
                                           + (IF i % 2 = 1 THEN 0 ELSE Scale \div 2))

\* hasLongs/hasShorts: the key is in data['data']
LiqBody(json, hasData, hasLongs, longs, hasShorts, shorts) ==
    [json |-> json, hasData |-> hasData, hasLongs |-> hasLongs,
     longs |-> longs, hasShorts |-> hasShorts, shorts |-> shorts]

LiqBodies ==
    {LiqBody(FALSE, FALSE, FALSE, <<>>, FALSE, <<>>),
     LiqBody(TRUE, FALSE, FALSE, <<>>, FALSE, <<>>),
     LiqBody(TRUE, TRUE, TRUE, <<LiqItem(FALSE, TRUE, 0)>>, TRUE, <<ShortItem(1)>>)}
    \cup {LiqBody(TRUE, TRUE, hl, IF hl THEN [i \in 1..nl |-> LongItem(i)] ELSE <<>>,
                  hs, IF hs THEN [i \in 1..ns |-> ShortItem(i)] ELSE <<>>) :
            hl \in BOOLEAN, hs \in BOOLEAN,
            nl \in 0..MaxLiqLen, ns \in 0..MaxLiqLen}

LiqResponses == {Transport} \cup {Http(st, b) : st \in Statuses, b \in LiqBodies}

\* [0, 0]: two int zeros
ZeroPair == <<LiqItem(TRUE, TRUE, 0), LiqItem(TRUE, TRUE, 0)>>

\* [item['price'] for item in lst[:2]] raises KeyError
PricesRaise(lst) == \E i \in 1..Min2(2, Len(lst)) : ~lst[i].hasPrice

\* [item['price'] for item in lst[:2]]
Prices(lst) == Prefix(lst, 2)

\* longs or [0, 0]
OrZeroPair(lst) == IF lst = <<>> THEN ZeroPair ELSE lst

\* the body of the status-200 branch raises
LiqParseRaises(body) ==
    \/ ~body.json
    \/ body.hasData /\ body.hasLongs /\ PricesRaise(body.longs)
    \/ body.hasData /\ body.hasShorts /\ PricesRaise(body.shorts)

\* the status-200 branch's return value
LiqParse(body) ==
    [long  |-> OrZeroPair(IF body.hasData /\ body.hasLongs
                          THEN Prices(body.longs) ELSE <<>>),
     short |-> OrZeroPair(IF body.hasData /\ body.hasShorts
                          THEN Prices(body.shorts) ELSE <<>>)]

LiqFallback == [long |-> ZeroPair, short |-> ZeroPair]

\* get_coinglass_liquidations() for the response resp
LiqResult(resp) ==
    IF resp.err THEN LiqFallback
    ELSE IF resp.status = 200
         THEN IF LiqParseRaises(resp.body) THEN LiqFallback
              ELSE LiqParse(resp.body)
         ELSE LiqFallback

\* the request failed: transport error, a status other than 200, or a body
\* that cannot be read
LiqFailed(resp) ==
    \/ resp.err
    \/ resp.status # 200
    \/ ~resp.body.json
    \/ \E i \in 1..Len(resp.body.longs) : ~resp.body.longs[i].hasPrice
    \/ \E i \in 1..Len(resp.body.shorts) : ~resp.body.shorts[i].hasPrice

NoLiq == [long |-> <<>>, short |-> <<>>]

Coinglass ==
    /\ pc = "coinglass"
    /\ IF ~apiKey
       THEN /\ liq' = LiqFallback
            /\ requests' = requests
       ELSE \E resp \in LiqResponses :
              /\ requests' = Append(requests, Entry("liquidation", LiqFailed(resp)))
              /\ liq' = LiqResult(resp)
    /\ calls' = Append(calls, "coinglass")
    /\ pc' = "indicators"
    /\ UNCHANGED <<apiKey, klines, oi, binance, bybit, ind, h4, vola, report,
                   writes, arg, res>>

-----------------------------------------------------------------------------
(* main: the indicators of the primary series *)

\* list(range(a, b))
Range(a, b) == [k \in 1..(b - a) |-> a + k - 1]

\* the loop started one prefix early
MacdListFrom9(mid) ==
    LET r == Range(9, Len(mid) + 1)
    IN  [j \in 1..Len(r) |-> Round3(calculate_macd(Prefix(mid, r[j])))]

\* macd_list: one rounded MACD per prefix length in range(10, len + 1)
MacdList(mid) ==
    LET r == Range(10, Len(mid) + 1)
    IN  [j \in 1..Len(r) |-> Round3(calculate_macd(Prefix(mid, r[j])))]

\* rsi7_list: one rounded RSI per prefix length in range(8, len + 1)
RsiList(mid) ==
    LET r == Range(8, Len(mid) + 1)
    IN  [j \in 1..Len(r) |->
            RoundFrac3(calculate_rsi(Prefix(mid, r[j]), RsiPeriod))]

\* x[-1] if x else dflt
LastOr(x, dflt) == IF x = <<>> THEN dflt ELSE Last(x)

Indicators(mid) ==
    [current_price |-> Last(mid),
     ema20_list    |-> LastN(calculate_ema(mid, 20), 10),
     ema20         |-> Last(LastN(calculate_ema(mid, 20), 10)),
     macd_list     |-> MacdList(mid),
     current_macd  |-> LastOr(MacdList(mid), 0),
     rsi7_list     |-> RsiList(mid),
     current_rsi7  |-> LastOr(RsiList(mid), 50 * Scale)]

NoInd ==
    [current_price |-> 0, ema20_list |-> <<>>, ema20 |-> 0, macd_list |-> <<>>,
     current_macd |-> 0, rsi7_list |-> <<>>, current_rsi7 |-> 0]

\* binance['mid_prices'][-1] raises IndexError on an empty series
ComputeIndicators ==
    /\ pc = "indicators"
    /\ IF binance.mid_prices = <<>>
       THEN /\ pc' = "crashed"
            /\ ind' = ind
       ELSE /\ ind' = Indicators(binance.mid_prices)
            /\ pc' = "h4"
    /\ UNCHANGED <<apiKey, requests, calls, klines, oi, binance, bybit, liq,
                   h4, vola, report, writes, arg, res>>

-----------------------------------------------------------------------------
(* main: the 4-hour candles *)

\* longest list of 4-hour candles in a body of the model
MaxH4Len == 2

\* the 4-hour closes of a live body: 30000.0, 30100.0, ...
H4Rows(n) == [i \in 1..n |-> Row((30000 + 100 * (i - 1)) * Scale, Scale, Scale \div 2)]

H4Bodies ==
    {[json |-> FALSE, isList |-> FALSE, rows |-> <<>>],
     [json |-> TRUE, isList |-> FALSE, rows |-> <<>>],
     [json |-> TRUE, isList |-> TRUE, rows |-> <<BadRow>>]}
    \cup {[json |-> TRUE, isList |-> TRUE, rows |-> H4Rows(n)] : n \in 0..MaxH4Len}

H4Responses == {Transport} \cup {Http(st, b) : st \in Statuses, b \in H4Bodies}

\* The try block raises.  There is no status check.  A body that is not a
\* list is Binance's error object {"code": ..., "msg": ...}: iterating it
\* yields its keys, and k[4] raises; an empty list makes calculate_ema
\* raise on prices[0].
H4Raises(resp) ==
    \/ resp.err
    \/ ~resp.body.json
    \/ ~resp.body.isList
    \/ Len(resp.body.rows) = 0
    \/ \E i \in 1..Len(resp.body.rows) : ~resp.body.rows[i].ok

H4Live(rows) ==
    LET closes_4h == [i \in 1..Len(rows) |-> rows[i].close]
    IN  [ema20_4h |-> Last(calculate_ema(closes_4h, 20)),
         ema50_4h |-> Last(calculate_ema(closes_4h, 50))]

\* the except clause: 60000.0 and 59000.0
H4Fallback == [ema20_4h |-> 60000 * Scale, ema50_4h |-> 59000 * Scale]

\* the request failed: transport error, non-2xx status, or a body that is
\* not a non-empty list of well-formed candles
H4Failed(resp) ==
    \/ resp.err
    \/ resp.status \notin 200..299
    \/ ~resp.body.json
    \/ ~resp.body.isList
    \/ resp.body.rows = <<>>
    \/ \E i \in 1..Len(resp.body.rows) : ~resp.body.rows[i].ok

NoH4 == [ema20_4h |-> 0, ema50_4h |-> 0]

Fetch4h ==
    /\ pc = "h4"
    /\ \E resp \in H4Responses :
         /\ requests' = Append(requests, Entry("klines4h", H4Failed(resp)))
         /\ h4' = IF H4Raises(resp) THEN H4Fallback ELSE H4Live(resp.body.rows)
    /\ pc' = "volatility"
    /\ UNCHANGED <<apiKey, calls, klines, oi, binance, bybit, liq, ind, vola,
                   report, writes, arg, res>>

-----------------------------------------------------------------------------
(* main: ATR proxy and volatility regime *)

\* the window of the ATR proxy
AtrPeriod == 14

\* max(p[i], p[i-1]) - min(p[i], p[i-1]) for i in range(1, len(p))
HighLow(mid) ==
    [i \in 1..(Len(mid) - 1) |->
        Max2(mid[i + 1], mid[i]) - Min2(mid[i + 1], mid[i])]

\* the average taken over whatever differences exist
AtrUnguarded(mid) == SumSeq(LastN(HighLow(mid), AtrPeriod)) \div AtrPeriod

\* atr14
Atr(mid) ==
    IF Len(HighLow(mid)) >= AtrPeriod
    THEN SumSeq(LastN(HighLow(mid), AtrPeriod)) \div AtrPeriod
    ELSE 0

\* vol_regime for vol_pct = atr14 / current_price (current_price > 0):
\* "high" above 0.005 = 1/200, "low" below 0.002 = 1/500
VolRegime(atr14, current_price) ==
    IF atr14 * 200 > current_price THEN "high"
    ELSE IF atr14 * 500 < current_price THEN "low"
    ELSE "normal"

NoVola == [atr14 |-> 0, vol_regime |-> "unset"]

\* atr14 / current_price raises ZeroDivisionError when current_price is 0
Volatility ==
    /\ pc = "volatility"
    /\ IF ind.current_price = 0
       THEN /\ pc' = "crashed"
            /\ vola' = vola
       ELSE /\ vola' = [atr14      |-> Atr(binance.mid_prices),
                        vol_regime |-> VolRegime(Atr(binance.mid_prices),
                                                 ind.current_price)]
            /\ pc' = "report"
    /\ UNCHANGED <<apiKey, requests, calls, klines, oi, binance, bybit, liq,
                   ind, h4, report, writes, arg, res>>

-----------------------------------------------------------------------------
(* main: the report.  A rendered number is [dec, val]: the number of       *)
(* digits after the decimal point in the text, and the value shown in      *)
(* units of 10^-dec.                                                       *)

\* format(x, ".<d>f") of a value in units of Scale
Fixed(x, d) ==
    [dec |-> d,
     val |-> IF d >= ScaleDigits THEN x * Pow10(d - ScaleDigits)
             ELSE RoundHalfEven(x, Pow10(ScaleDigits - d))]

\* format(x, ".8f") of a funding rate (units of 10^-8)
FixedFunding(x) == [dec |-> 8, val |-> x]

\* the fewest digits d >= 1 that show x exactly
ReprDigits(x) ==
    IF x % Pow10(ScaleDigits - 1) = 0 THEN 1
    ELSE IF x % Pow10(ScaleDigits - 2) = 0 THEN 2
    ELSE IF x % Pow10(ScaleDigits - 3) = 0 THEN 3
    ELSE ScaleDigits

\* repr(x) of a float in units of Scale: the shortest text that reads back
ReprFloat(x) ==
    [dec |-> ReprDigits(x), val |-> x \div Pow10(ScaleDigits - ReprDigits(x))]

\* repr of a JSON number kept as parsed: an int shows no decimal point
ReprItem(item) ==
    IF item.isInt THEN [dec |-> 0, val |-> item.price \div Scale]
    ELSE ReprFloat(item.price)

\* repr of a list of floats
ReprList(xs) == [i \in 1..Len(xs) |-> ReprFloat(xs[i])]

\* one numeric field of the report: its label, the kind of quantity, and
\* the numbers rendered in it
Field(name, kind, texts) == [name |-> name, kind |-> kind, texts |-> texts]

\* the text between the f-string's braces, in the order of the template
Render(bn, bb, lq, id, hh, vl) ==
    << Field("current_price", "price", <<ReprFloat(id.current_price)>>),
       Field("current_ema20", "indicator", <<Fixed(id.ema20, 3)>>),
       Field("current_macd", "indicator", <<Fixed(id.current_macd, 3)>>),
       Field("current_rsi", "indicator", <<Fixed(id.current_rsi7, 3)>>),
       Field("oi_latest", "volume", <<Fixed(bb.oi_latest, 2)>>),
       Field("oi_average", "volume",
             <<Fixed(MulDiv(bb.oi_latest, 999, 1000), 2)>>),
       Field("funding_rate", "funding", <<FixedFunding(bb.funding_rate)>>),
       Field("mid_prices", "price", ReprList(bn.mid_prices)),
       Field("ema20_list", "indicator",
             ReprList([i \in 1..Len(id.ema20_list) |-> Round3(id.ema20_list[i])])),
       Field("macd_list", "indicator", ReprList(id.macd_list)),
       Field("rsi7_list", "indicator", ReprList(id.rsi7_list)),
       Field("rsi14_list", "indicator", ReprList(Repeat(60 * Scale, 10))),
       Field("ema20_4h", "indicator", <<Fixed(hh.ema20_4h, 3)>>),
       Field("ema50_4h", "indicator", <<Fixed(hh.ema50_4h, 3)>>),
       Field("atr3", "indicator", <<Fixed(vl.atr14, 3)>>),
       Field("atr14", "indicator", <<Fixed(vl.atr14, 3)>>),
       Field("current_volume", "volume", <<Fixed(Last(bn.volumes), 3)>>),
       Field("average_volume", "volume",
             <<Fixed(SumSeq(bn.volumes) \div Len(bn.volumes), 3)>>),
       Field("macd_4h_list", "indicator", ReprList(Repeat(100 * Scale, 10))),
       Field("rsi14_4h_list", "indicator", ReprList(Repeat(60 * Scale, 10))),
       Field("bid_vol", "volume", <<Fixed(bn.bid_vol_top5, 1)>>),
       Field("ask_vol", "volume", <<Fixed(bn.ask_vol_top5, 1)>>),
       Field("imbalance", "imbalance", <<Fixed(bn.order_book_imbalance, 3)>>),
       Field("taker_buy_volume", "volume",
             <<Fixed(Last(bn.taker_buy_volumes), 1)>>),
       Field("taker_buy_pct", "volume",
             <<Fixed(MulDiv(Last(bn.taker_buy_volumes) * 100, Scale,
                            Last(bn.volumes)), 1)>>),
       Field("long_liq", "level", [i \in 1..Len(lq.long) |-> ReprItem(lq.long[i])]),
       Field("short_liq", "level", [i \in 1..Len(lq.short) |-> ReprItem(lq.short[i])]),
       Field("atr_1h", "indicator", <<Fixed(vl.atr14, 1)>>) >>

NoReport == [fields |-> <<>>, regime |-> "unset"]

\* evaluating the f-string raises: the taker-buy share divides by the
\* latest volume
RenderRaises(bn) == Last(bn.volumes) = 0

\* the f-string, os.makedirs and the write of public/btc-data.txt
WriteReport ==
    /\ pc = "report"
    /\ IF RenderRaises(binance)
       THEN /\ pc' = "crashed"
            /\ report' = report
            /\ writes' = writes
       ELSE /\ report' = [fields |-> Render(binance, bybit, liq, ind, h4, vola),
                          regime |-> vola.vol_regime]
            /\ writes' = writes + 1
            /\ pc' = "done"
    /\ UNCHANGED <<apiKey, requests, calls, klines, oi, binance, bybit, liq,
                   ind, h4, vola, arg, res>>

-----------------------------------------------------------------------------
(* One run of main() *)

Init ==
    /\ pc = "klines"
    /\ apiKey \in BOOLEAN
    /\ requests = <<>>
    /\ calls = <<>>
    /\ klines = NoKlines
    /\ oi = NoBody
    /\ binance = NoBag
    /\ bybit = NoBybit
    /\ liq = NoLiq
    /\ ind = NoInd
    /\ h4 = NoH4
    /\ vola = NoVola
    /\ report = NoReport
    /\ writes = 0
    /\ arg = <<>>
    /\ res = <<>>

Next ==
    \/ BinanceKlines
    \/ BinanceDepth
    \/ BybitOI
    \/ BybitFunding
    \/ Coinglass
    \/ ComputeIndicators
    \/ Fetch4h
    \/ Volatility
    \/ WriteReport

Spec == Init /\ [][Next]_vars

-----------------------------------------------------------------------------
(* calculate_rsi on its own: every series of at most MaxSeriesLen prices   *)
(* that starts at 100.0 and moves by -1.5, 0 or +1.0 per step.             *)

SeriesDeltas == {0 - (Scale + Scale \div 2), 0, Scale}

RECURSIVE Cumulate(_, _)
\* the prices that start at p and move by the deltas ds
Cumulate(p, ds) ==
    IF ds = <<>> THEN <<p>> ELSE <<p>> \o Cumulate(p + Head(ds), Tail(ds))

RsiInputs ==
    {<<>>} \cup
    UNION {{Cumulate(100 * Scale, ds) : ds \in [1..n -> SeriesDeltas]} :
             n \in 0..(MaxSeriesLen - 1)}

Idle ==
    /\ apiKey = FALSE
    /\ requests = <<>>
    /\ calls = <<>>
    /\ klines = NoKlines
    /\ oi = NoBody
    /\ binance = NoBag
    /\ bybit = NoBybit
    /\ liq = NoLiq
    /\ ind = NoInd
    /\ h4 = NoH4
    /\ vola = NoVola
    /\ report = NoReport
    /\ writes = 0

InitRsi ==
    /\ pc = "rsi"
    /\ arg \in RsiInputs
    /\ res = <<>>
    /\ Idle

CalcRsi ==
    /\ pc = "rsi"
    /\ res' = calculate_rsi(arg, RsiPeriod)
    /\ pc' = "rsi_done"
    /\ UNCHANGED <<apiKey, requests, calls, klines, oi, binance, bybit, liq,
                   ind, h4, vola, report, writes, arg>>

RsiSpec == InitRsi /\ [][CalcRsi]_vars

-----------------------------------------------------------------------------
(* The imbalance on its own: every pair of aggregated volumes 0..MaxVol.   *)

InitImb ==
    /\ pc = "imbalance"
    /\ arg \in {<<b * Scale, a * Scale>> : b \in 0..MaxVol, a \in 0..MaxVol}
    /\ res = <<>>
    /\ Idle

CalcImbalance ==
    /\ pc = "imbalance"
    /\ res' = <<RoundImbalance(Imbalance(arg[1], arg[2]))>>
    /\ pc' = "imbalance_done"
    /\ UNCHANGED <<apiKey, requests, calls, klines, oi, binance, bybit, liq,
                   ind, h4, vola, report, writes, arg>>

ImbSpec == InitImb /\ [][CalcImbalance]_vars

-----------------------------------------------------------------------------
(* Properties *)

Failed(eps) == \E i \in 1..Len(requests) : requests[i].ep \in eps /\ requests[i].failed

Requested(ep) == \E i \in 1..Len(requests) : requests[i].ep = ep

BinanceReturned == pc \notin {"klines", "depth", "rsi", "rsi_done",
                              "imbalance", "imbalance_done"}

BybitReturned == BinanceReturned /\ pc \notin {"oi", "funding"}

LiqReturned == BybitReturned /\ pc # "coinglass"

IndicatorsDone == ind # NoInd

C2_RunReachesSink ==
    /\ pc # "crashed"
    /\ pc = "done" => writes = 1

\* C3: get_bybit_data returns the fallback for both fields whenever one of
\* its two requests failed, a non-2xx status included.
C3_BybitFallbackOnAnyFailure ==
    BybitReturned /\ Failed({"oi", "funding"}) => bybit = BybitFallback

\* C4: in every outcome of get_coinglass_liquidations both returned
\* sequences, the long side and the short side, have length exactly 2.
C4_LiquidationPairs ==
    LiqReturned =>
        /\ Len(liq.long) = 2
        /\ Len(liq.short) = 2

\* C5 as written: with fewer than 14 price differences ATR is 0 and the
\* report renders the regime "normal".
C5_RegimeNormal ==
    pc = "done" /\ Len(binance.mid_prices) - 1 < AtrPeriod =>
        /\ vola.atr14 = 0
        /\ report.regime = "normal"

\* C5: with fewer than 14 price differences ATR is 0, the ratio
\* ATR/currentPrice is 0, which is below 0.002, and the report renders the
\* regime "low".
C5_RegimeLow ==
    pc = "done" /\ Len(binance.mid_prices) - 1 < AtrPeriod =>
        /\ vola.atr14 = 0
        /\ report.regime = "low"
        /\ report.fields[15].name = "atr3"
        /\ report.fields[15].texts[1].val = 0

\* the end-to-end scenario: the series 100, 101, ..., 109
C5_Witness ==
    /\ pc = "done"
    /\ binance.mid_prices = [i \in 1..10 |-> (99 + i) * Scale]
    /\ vola.atr14 = 0
    /\ report.regime = "low"

\* C6 as written: the imbalance is in [-1, 1] and is 0 exactly when
\* bidVol + askVol = 0.
C6_ZeroIffEmptyBook ==
    pc = "imbalance_done" =>
        /\ res[1] >= 0 - Scale
        /\ res[1] <= Scale
        /\ res[1] = 0 <=> arg[1] + arg[2] = 0

\* C6: the imbalance is in [-1, 1]; it is 0 when bidVol + askVol = 0, and
\* also whenever bidVol = askVol.
C6_ZeroWhenBalanced ==
    pc = "imbalance_done" =>
        /\ res[1] >= 0 - Scale
        /\ res[1] <= Scale
        /\ arg[1] + arg[2] = 0 => res[1] = 0
        /\ arg[1] = arg[2] => res[1] = 0

\* a balanced, non-empty book
C6_Witness ==
    /\ pc = "imbalance_done"
    /\ arg[1] = arg[2]
    /\ arg[1] > 0
    /\ res[1] = 0

\* the last RsiPeriod deltas of the series are all +1.0
AllUp(prices) ==
    /\ Len(prices) >= RsiPeriod + 1
    /\ \A i \in (Len(prices) - RsiPeriod)..(Len(prices) - 1) :
         prices[i + 1] - prices[i] = Scale

\* C7: calculate_rsi(series, 7) is in [0, 100], is exactly 50 for a series
\* of fewer than 8 prices, and is exactly 50 when the last 7 deltas are all
\* +1 (no losses, the average loss being 1).
C7_RsiRange ==
    pc = "rsi_done" =>
        /\ res[2] > 0
        /\ res[1] >= 0
        /\ res[1] <= 100 * res[2]
        /\ Len(arg) < 8 => res[1] = 50 * res[2]
        /\ AllUp(arg) => res[1] = 50 * res[2]

\* a series of at least 8 prices rising by 1 yields 50
C7_Witness ==
    /\ pc = "rsi_done"
    /\ AllUp(arg)
    /\ res[1] = 50 * res[2]

\* C8 as written: for every non-empty primary series the MACD list has
\* len - 9 entries and the RSI list len - 7.
C8_ListLengths ==
    IndicatorsDone =>
        /\ Len(ind.macd_list) = Len(binance.mid_prices) - 9
        /\ Len(ind.rsi7_list) = Len(binance.mid_prices) - 7

\* C8: the MACD list has max(0, len - 9) entries and the RSI list
\* max(0, len - 7); current MACD is the last MACD entry or 0, current RSI7
\* the last RSI entry or 50.0.
C8_ListLengthsClamped ==
    IndicatorsDone =>
        /\ Len(ind.macd_list) = Max2(0, Len(binance.mid_prices) - 9)
        /\ Len(ind.rsi7_list) = Max2(0, Len(binance.mid_prices) - 7)
        /\ ind.current_macd =
             IF Len(ind.macd_list) = 0 THEN 0
             ELSE ind.macd_list[Len(ind.macd_list)]
        /\ ind.current_rsi7 =
             IF Len(ind.rsi7_list) = 0 THEN 50 * Scale
             ELSE ind.rsi7_list[Len(ind.rsi7_list)]

\* a live 10-sample series: 1 MACD value and 3 RSI values
C8_Witness ==
    /\ IndicatorsDone
    /\ ~Failed({"klines", "depth"})
    /\ Len(binance.mid_prices) = 10
    /\ Len(ind.macd_list) = 1
    /\ Len(ind.rsi7_list) = 3
    /\ ind.current_macd = ind.macd_list[1]

\* the number of decimals the report is said to use for a kind of field
Precision(kind) ==
    IF kind \in {"price", "indicator"} THEN 3
    ELSE IF kind \in {"volume", "level"} THEN 1
    ELSE IF kind = "funding" THEN 8
    ELSE 4

\* C9: every number of the report is rendered with the fixed number of
\* decimals of its kind: 3 for prices and indicators, 1 for volumes and
\* levels, 8 for the funding rate, 4 for the imbalance.
C9_FixedPrecision ==
    pc = "done" =>
        \A i \in 1..Len(report.fields) :
            \A j \in 1..Len(report.fields[i].texts) :
                report.fields[i].texts[j].dec = Precision(report.fields[i].kind)

\* the fallback bag of the adapter an endpoint belongs to was returned
AdapterFellBack(ep) ==
    IF ep \in {"klines", "depth"} THEN BinanceReturned => binance = BinanceFallback
    ELSE IF ep \in {"oi", "funding"} THEN BybitReturned => bybit = BybitFallback
    ELSE IF ep = "liquidation" THEN LiqReturned => liq = LiqFallback
    ELSE TRUE

\* each endpoint is requested at most once
AtMostOnce ==
    \A i, j \in 1..Len(requests) : requests[i].ep = requests[j].ep => i = j

\* the adapters run once each, in the order binance, bybit, coinglass
AdapterOrder ==
    /\ calls = Prefix(<<"binance", "bybit", "coinglass">>, Len(calls))
    /\ LiqReturned => Len(calls) = 3

\* no endpoint is requested twice, the liquidation endpoint is not
\* requested without the credential, and the adapters run once each in order
RequestDiscipline ==
    /\ AtMostOnce
    /\ ~apiKey => ~Requested("liquidation")
    /\ AdapterOrder

\* C10: no retries.  Each endpoint is requested at most once; a failed
\* request leads to its adapter's fallback; without the credential the
\* liquidation endpoint is not requested; the adapters run once each in the
\* order Exchange-A, Exchange-B, Exchange-C.
C10_NoRetries ==
    /\ RequestDiscipline
    /\ \A i \in 1..Len(requests) :
         requests[i].failed => AdapterFellBack(requests[i].ep)

====
